---- MODULE Spec2Model ----
(***************************************************************************)
(* Model of the gin-fleamarket business layer: ItemService (Create,        *)
(* Update, PurchaseItem) running concurrently over the GORM-backed          *)
(* ItemRepository and the user repository.  Every SQL statement is one      *)
(* atomic step; the service code between two statements is folded into the  *)
(* step of the statement that precedes it.                                  *)
(***************************************************************************)
EXTENDS Integers, Sequences, FiniteSets, TLC

(* ------------------------------ bounds --------------------------------- *)
NumProcs == 2
MaxCalls == 3
MaxItems == 4
MaxRows == 3

Procs == 1..NumProcs

(* ------------------------------ inputs --------------------------------- *)
NameInputs == {"B"}
DescriptionInputs == {"y"}
\* Prices of the sequential inputs: two that the tax factor maps exactly (10
\* gives 11, 20 gives 22) and one below 10 that it truncates (9.9 gives 9).
PriceInputs == {9, 10, 20}

\* CreateItemInput.Price binding: min=1, max=999999.
MinPrice == 1
MaxPrice == 999999
\* Prices of the price-mapping specification: a dense low range, the test's
\* 1000 and the largest valid price.
DensePrices == 40
WidePrices == (MinPrice..DensePrices) \cup {1000, MaxPrice}

\* A Go pointer field of UpdateItemInput: nil is <<>>, a value v is <<v>>.
Nil == <<>>
Some(v) == <<v>>
Opt(S) == {Nil} \cup {Some(v) : v \in S}

\* models.Item zero value, and the rows the database holds at start.
ZeroItem == [id |-> 0, name |-> "", price |-> 0, description |-> "", soldOut |-> FALSE,
             userId |-> 0, categoryId |-> 0]
ZeroUser == [id |-> 0, balance |-> 0]

SeedItems == << [name |-> "A", price |-> 11, description |-> "x", soldOut |-> FALSE,
                 userId |-> 1, categoryId |-> 1, deleted |-> FALSE],
                [name |-> "B", price |-> 22, description |-> "y", soldOut |-> FALSE,
                 userId |-> 2, categoryId |-> 2, deleted |-> FALSE] >>
\* The categories Migrate seeds.
SeedCategories == 1..3
SeedUsers == << [balance |-> 33], [balance |-> 11] >>

ZeroArg == [itemId |-> 0, userId |-> 0, name |-> Nil, price |-> Nil,
            description |-> Nil, soldOut |-> Nil, page |-> 0, pageSize |-> 0]
EmptyPre == [items |-> <<>>, users |-> <<>>]
NoRet == [items |-> <<>>, total |-> 0, sold |-> 0, average |-> 0, aliased |-> FALSE]
FreeMutex == [writer |-> 0, readers |-> {}]

\* Error kinds (nil is the empty string).
ErrNotFound == "NotFound"
ErrSoldOut == "AlreadySoldOut"
ErrBalance == "InsufficientBalance"
ErrImmutablePrice == "ImmutablePriceAfterSale"
ErrInfra == "InfrastructureError"
\* gorm.ErrMissingWhereClause
ErrMissingWhere == "MissingWhereClause"
\* Go's run-time panic "integer divide by zero".
ErrPanic == "PanicDivideByZero"

VARIABLES
  items,    \* the items table: row id is the index, Len is the id sequence's last value
  users,    \* the users table
  pc,       \* per request: position in the service method
  op,       \* per request: the service method running
  arg,      \* per request: the call's arguments
  item,     \* per request: the loaded *models.Item
  user,     \* per request: the loaded *models.User
  res,      \* per request: the error returned ("" is nil)
  calls,    \* number of service calls started so far
  writes,   \* per request: repository writes the current call has committed
  alone,    \* per request: no other request stepped since this call began
  pre,      \* per request: tables at the start of the call (kept while alone)
  late,     \* per request: the call began after a successful purchase of its item
  sales,    \* per item id: number of PurchaseItem calls that returned nil
  debited,  \* per user: sum of the prices of the purchases that returned nil
  ret,      \* per request: the value a query returned
  memItems, \* ItemMemoryRepository.items
  mu        \* ItemMemoryRepository.mu: the writer and the readers holding it

vars == <<items, users, pc, op, arg, item, user, res, calls, writes, alone, pre, late, sales,
          debited, ret, memItems, mu>>

(* --------------------------- pure functions ---------------------------- *)
\* Variant: the tax-inclusive price is rounded to nearest instead of truncated.
calculatePriceRounded(basePrice) == (basePrice * 11 + 5) \div 10

\* ItemService.calculatePrice: uint(float64(basePrice) * 1.10)
calculatePrice(basePrice) == (basePrice * 11) \div 10

(* Go's uint is 64 bits wide (32 on 32-bit targets), wider than the integers  *)
(* of the checker.  A uint value v is held by its two's complement reading:  *)
(* v itself below half the range, v - 2^w from there on, so that -11 stands   *)
(* for 2^w - 11.  Subtraction modulo 2^w is then the integer subtraction and   *)
(* the unsigned order puts every negative reading above every other value.     *)
\* Variant: the operands of the debit are swapped.
UintSubSwapped(a, b) == b - a

\* Unsigned subtraction user.Balance -= item.Price
UintSub(a, b) == a - b

\* Unsigned comparison a < b
UintLess(a, b) == IF (a < 0) = (b < 0) THEN a < b ELSE b < 0

\* A row as INSERT stores it (DeletedAt is NULL), and a row as SELECT loads it.
Row(it) == [name |-> it.name, price |-> it.price,
            description |-> it.description, soldOut |-> it.soldOut,
            userId |-> it.userId, categoryId |-> it.categoryId, deleted |-> FALSE]
Loaded(db, id) == [id |-> id, name |-> db[id].name, price |-> db[id].price,
                   description |-> db[id].description, soldOut |-> db[id].soldOut,
                   userId |-> db[id].userId, categoryId |-> db[id].categoryId]

\* An id the sequence handed to an INSERT that stored no row (the INSERT failed
\* or its transaction was rolled back): no query finds a row under it.
Hole == [Row(ZeroItem) EXCEPT !.deleted = TRUE]

\* gorm.Model soft delete: every query of the model skips rows with DeletedAt set.
Live(db) == {i \in DOMAIN db : ~db[i].deleted}

\* ItemRepository.FindById
FindById(db, itemId) ==
  IF itemId \in Live(db)
    THEN [err |-> "", item |-> Loaded(db, itemId)]
    ELSE [err |-> ErrNotFound, item |-> ZeroItem]

\* Item.BeforeUpdate hook: rejects a price change of a sold-out row.
BeforeUpdate(db, it) ==
  LET oldItem == IF it.id \in Live(db) THEN Loaded(db, it.id) ELSE ZeroItem
  IN IF oldItem.soldOut /\ oldItem.price # it.price THEN ErrImmutablePrice ELSE ""

\* ItemRepository.Update, the UPDATE statement that follows the hook: without a
\* primary key GORM refuses it, otherwise it writes the four columns of the live
\* row with the item's id; no row affected is "Item not found".
RepoUpdate(db, it) ==
  IF it.id = 0
    THEN [err |-> ErrMissingWhere, db |-> db]
  ELSE IF it.id \notin Live(db)
    THEN [err |-> ErrNotFound, db |-> db]
  ELSE [err |-> "", db |-> [db EXCEPT ![it.id].name = it.name,
                                      ![it.id].price = it.price,
                                      ![it.id].description = it.description,
                                      ![it.id].soldOut = it.soldOut]]

\* Variant: the assigned id is not written back into the returned item.
RepoCreateNoId(db, newItem) ==
  [err |-> "", item |-> newItem, db |-> Append(db, Hole)]

\* ItemRepository.Create, the INSERT statement: it draws the next value of the
\* id sequence and returns it in the item; the id is used up from here on, the
\* row is visible to no query until the transaction commits.
RepoCreate(db, newItem) ==
  LET id == Len(db) + 1
  IN [err |-> "", item |-> [newItem EXCEPT !.id = id], db |-> Append(db, Hole)]

\* The COMMIT of the transaction around the INSERT: the row becomes visible.
RepoCommit(db, it) ==
  IF it.id \in DOMAIN db THEN [db EXCEPT ![it.id] = Row(it)] ELSE db

\* Variant: Delete removes the row without looking at DeletedAt.
RepoDeleteAnyRow(db, itemId) ==
  IF itemId \notin DOMAIN db
    THEN [err |-> ErrNotFound, db |-> db]
    ELSE [err |-> "", db |-> [db EXCEPT ![itemId].deleted = TRUE]]

\* ItemRepository.Delete: soft delete; no row affected is "Item not found".
RepoDelete(db, itemId) ==
  IF itemId \notin Live(db)
    THEN [err |-> ErrNotFound, db |-> db]
    ELSE [err |-> "", db |-> [db EXCEPT ![itemId].deleted = TRUE]]

\* The sequences of n distinct elements of S.
RECURSIVE Arrangements(_, _)
Arrangements(S, n) ==
  IF n = 0 THEN {<<>>}
  ELSE UNION {{<<x>> \o t : t \in Arrangements(S \ {x}, n - 1)} : x \in S}

\* ItemRepository.FindAll: Find without an Order clause; the database returns
\* the live rows in an order of its choosing.
FindAll(db) ==
  {[k \in DOMAIN f |-> Loaded(db, f[k])] : f \in Arrangements(Live(db), Cardinality(Live(db)))}

\* offset := (page - 1) * pageSize
PageOffset(page, pageSize) == (page - 1) * pageSize

\* ItemRepository.FindWithPagination, first statement: Model(&Item{}).Count(&total)
CountItems(db) == Cardinality(Live(db))

\* ItemRepository.FindWithPagination, second statement:
\* Offset(offset).Limit(pageSize).Find without an Order clause; the database
\* skips offset live rows and returns up to pageSize of the others, in an
\* order of its choosing.
Paginate(db, page, pageSize) ==
  LET offset == PageOffset(page, pageSize)
      rest == Cardinality(Live(db)) - offset
      n == IF rest <= 0 THEN 0 ELSE IF rest < pageSize THEN rest ELSE pageSize
  IN {[k \in DOMAIN f |-> Loaded(db, f[k])] : f \in Arrangements(Live(db), n)}

\* ItemService.GetStatistics: the loop over FindAll and the average.
RECURSIVE TotalPrice(_)
TotalPrice(its) == IF its = <<>> THEN 0 ELSE its[1].price + TotalPrice(Tail(its))
RECURSIVE SoldCount(_)
SoldCount(its) ==
  IF its = <<>> THEN 0 ELSE (IF its[1].soldOut THEN 1 ELSE 0) + SoldCount(Tail(its))
Statistics(its) ==
  IF Len(its) = 0
    THEN [err |-> ErrPanic, total |-> 0, sold |-> 0, average |-> 0]
    ELSE [err |-> "", total |-> Len(its), sold |-> SoldCount(its),
          average |-> TotalPrice(its) \div Len(its)]

\* User repository (interface only in the sources): FindById and Update.
UserFindById(us, userId) ==
  IF userId \in DOMAIN us
    THEN [err |-> "", user |-> [id |-> userId, balance |-> us[userId].balance]]
    ELSE [err |-> ErrNotFound, user |-> ZeroUser]

UserUpdate(us, u) ==
  IF u.id \notin DOMAIN us
    THEN [err |-> ErrNotFound, us |-> us]
    ELSE [err |-> "", us |-> [us EXCEPT ![u.id] = [balance |-> u.balance]]]

\* ItemService.Create: the DTO to model mapping.
NewItem(a) == [id |-> 0, name |-> a.name[1], price |-> calculatePrice(a.price[1]),
               description |-> a.description[1], soldOut |-> FALSE,
               userId |-> 0, categoryId |-> 0]

\* Variant: a non-nil SoldOut of the input is applied as well.
ApplyUpdateInputSoldOut(target, a) ==
  [id |-> target.id,
   name |-> IF a.name # Nil THEN a.name[1] ELSE target.name,
   price |-> IF a.price # Nil THEN calculatePrice(a.price[1]) ELSE target.price,
   description |-> IF a.description # Nil THEN a.description[1] ELSE target.description,
   soldOut |-> IF a.soldOut # Nil THEN a.soldOut[1] ELSE target.soldOut,
   userId |-> target.userId, categoryId |-> target.categoryId]

\* Variant: the name is copied from the input even when it is nil.
ApplyUpdateInputNameAlways(target, a) ==
  [id |-> target.id,
   name |-> IF a.name # Nil THEN a.name[1] ELSE "",
   price |-> IF a.price # Nil THEN calculatePrice(a.price[1]) ELSE target.price,
   description |-> IF a.description # Nil THEN a.description[1] ELSE target.description,
   soldOut |-> target.soldOut, userId |-> target.userId, categoryId |-> target.categoryId]

\* ItemService.Update: only the non-nil fields of the input are applied.
ApplyUpdateInput(target, a) ==
  [id |-> target.id,
   name |-> IF a.name # Nil THEN a.name[1] ELSE target.name,
   price |-> IF a.price # Nil THEN calculatePrice(a.price[1]) ELSE target.price,
   description |-> IF a.description # Nil THEN a.description[1] ELSE target.description,
   soldOut |-> target.soldOut, userId |-> target.userId, categoryId |-> target.categoryId]

\* Variants of the balance rule: equality rejected; no check at all.
InsufficientBalanceOrEqual(u, it) ==
  UintLess(u.balance, it.price) \/ u.balance = it.price
InsufficientBalanceNever(u, it) == FALSE

\* PurchaseItem business rules.
\* Variant: the sold-out check is skipped.
IsSoldOutNever(it) == FALSE
IsSoldOut(it) == it.soldOut
InsufficientBalance(u, it) == UintLess(u.balance, it.price)

(* ------------------------------- state --------------------------------- *)
InitRest ==
  /\ users = SeedUsers
  /\ pc = [p \in Procs |-> "idle"]
  /\ op = [p \in Procs |-> "none"]
  /\ arg = [p \in Procs |-> ZeroArg]
  /\ item = [p \in Procs |-> ZeroItem]
  /\ user = [p \in Procs |-> ZeroUser]
  /\ res = [p \in Procs |-> ""]
  /\ calls = 0
  /\ writes = [p \in Procs |-> 0]
  /\ alone = [p \in Procs |-> FALSE]
  /\ pre = [p \in Procs |-> EmptyPre]
  /\ late = [p \in Procs |-> FALSE]
  /\ sales = [i \in 1..MaxItems |-> 0]
  /\ debited = [u \in DOMAIN SeedUsers |-> 0]
  /\ ret = [p \in Procs |-> NoRet]
  /\ mu = FreeMutex

Init ==
  /\ items = SeedItems
  /\ memItems = <<>>
  /\ InitRest

CanStart(p) == pc[p] \in {"idle", "done"} /\ calls < MaxCalls

\* Bookkeeping of a call's first step by p.
Started(p, o, a) ==
  /\ op' = [op EXCEPT ![p] = o]
  /\ arg' = [arg EXCEPT ![p] = a]
  /\ calls' = calls + 1
  /\ alone' = [q \in Procs |-> q = p]
  /\ pre' = [q \in Procs |-> IF q = p THEN [items |-> items, users |-> users] ELSE EmptyPre]
  /\ late' = [late EXCEPT ![p] = a.itemId \in DOMAIN sales /\ sales[a.itemId] > 0]
  /\ ret' = [ret EXCEPT ![p] = NoRet]
  /\ UNCHANGED <<memItems, mu>>

\* Bookkeeping of a later step by p.
Continued(p) ==
  /\ alone' = [q \in Procs |-> q = p /\ alone[p]]
  /\ pre' = [q \in Procs |-> IF q = p THEN pre[p] ELSE EmptyPre]
  /\ UNCHANGED <<op, arg, calls, late, ret, memItems, mu>>

(* ------------------------- ItemService.Create -------------------------- *)
\* The DTO mapping and r.db.Create's INSERT inside GORM's default transaction.
Create(p, a) ==
  /\ CanStart(p)
  /\ Len(items) < MaxItems
  /\ LET r == RepoCreate(items, NewItem(a))
     IN /\ items' = r.db
        /\ item' = [item EXCEPT ![p] = r.item]
        /\ res' = [res EXCEPT ![p] = r.err]
  /\ pc' = [pc EXCEPT ![p] = "create_commit"]
  /\ user' = [user EXCEPT ![p] = ZeroUser]
  /\ writes' = [writes EXCEPT ![p] = 0]
  /\ Started(p, "Create", a)
  /\ UNCHANGED <<users, sales, debited>>

\* r.db.Create's COMMIT: the row is stored; Create returns (&newItem, nil).
CreateCommit(p) ==
  /\ pc[p] = "create_commit"
  /\ items' = RepoCommit(items, item[p])
  /\ writes' = [writes EXCEPT ![p] = 1]
  /\ pc' = [pc EXCEPT ![p] = "done"]
  /\ Continued(p)
  /\ UNCHANGED <<users, item, user, res, sales, debited>>

\* r.db.Create returns result.Error: Create returns (nil, err), no row is stored;
\* the INSERT failed before or after it drew its id from the sequence.
CreateFails(p, a) ==
  /\ CanStart(p)
  /\ \/ UNCHANGED items
     \/ /\ Len(items) < MaxItems
        /\ items' = RepoCreate(items, NewItem(a)).db
  /\ pc' = [pc EXCEPT ![p] = "done"]
  /\ item' = [item EXCEPT ![p] = ZeroItem]
  /\ res' = [res EXCEPT ![p] = ErrInfra]
  /\ user' = [user EXCEPT ![p] = ZeroUser]
  /\ writes' = [writes EXCEPT ![p] = 0]
  /\ Started(p, "Create", a)
  /\ UNCHANGED <<users, sales, debited>>

(* ------------------------- ItemService.Update -------------------------- *)
\* targetItem, err := s.repository.FindById(itemId); then the field copies.
UpdateFindById(p, a) ==
  /\ CanStart(p)
  /\ LET r == FindById(items, a.itemId)
     IN IF r.err # ""
          THEN /\ pc' = [pc EXCEPT ![p] = "done"]
               /\ res' = [res EXCEPT ![p] = r.err]
               /\ item' = [item EXCEPT ![p] = ZeroItem]
          ELSE /\ pc' = [pc EXCEPT ![p] = "update_hook"]
               /\ res' = [res EXCEPT ![p] = ""]
               /\ item' = [item EXCEPT ![p] = ApplyUpdateInput(r.item, a)]
  /\ user' = [user EXCEPT ![p] = ZeroUser]
  /\ writes' = [writes EXCEPT ![p] = 0]
  /\ Started(p, "Update", a)
  /\ UNCHANGED <<items, users, sales, debited>>

\* repository.Update, first statement: the SELECT of the Item.BeforeUpdate hook.
\* An error of the hook ends the call; otherwise the UPDATE statement follows.
HookPc == {"update_hook", "purchase_item_hook", "repo_update_hook"}
AfterHook(at) == IF at = "update_hook" THEN "update_write"
                 ELSE IF at = "purchase_item_hook" THEN "purchase_update_item"
                 ELSE "repo_update_write"
ItemBeforeUpdate(p) ==
  /\ pc[p] \in HookPc
  /\ LET e == BeforeUpdate(items, item[p])
     IN IF e # ""
          THEN /\ pc' = [pc EXCEPT ![p] = "done"]
               /\ res' = [res EXCEPT ![p] = e]
               /\ item' = [item EXCEPT ![p] = IF op[p] = "RepositoryUpdate" THEN ZeroItem ELSE @]
          ELSE /\ pc' = [pc EXCEPT ![p] = AfterHook(pc[p])]
               /\ UNCHANGED <<res, item>>
  /\ Continued(p)
  /\ UNCHANGED <<items, users, user, writes, sales, debited>>

\* return s.repository.Update(*targetItem): the UPDATE statement.
UpdateRepoUpdate(p) ==
  /\ pc[p] = "update_write"
  /\ LET r == RepoUpdate(items, item[p])
     IN /\ items' = r.db
        /\ res' = [res EXCEPT ![p] = r.err]
        /\ writes' = [writes EXCEPT ![p] = IF r.err = "" THEN @ + 1 ELSE @]
  /\ pc' = [pc EXCEPT ![p] = "done"]
  /\ Continued(p)
  /\ UNCHANGED <<users, item, user, sales, debited>>

(* ----------------------- ItemService.PurchaseItem ---------------------- *)
\* item, err := s.repository.FindById(itemId); the sold-out check.
PurchaseFindItem(p, a) ==
  /\ CanStart(p)
  /\ LET r == FindById(items, a.itemId)
     IN IF r.err # ""
          THEN /\ pc' = [pc EXCEPT ![p] = "done"]
               /\ res' = [res EXCEPT ![p] = r.err]
               /\ item' = [item EXCEPT ![p] = ZeroItem]
          ELSE IF IsSoldOut(r.item)
          THEN /\ pc' = [pc EXCEPT ![p] = "done"]
               /\ res' = [res EXCEPT ![p] = ErrSoldOut]
               /\ item' = [item EXCEPT ![p] = r.item]
          ELSE /\ pc' = [pc EXCEPT ![p] = "purchase_find_user"]
               /\ res' = [res EXCEPT ![p] = ""]
               /\ item' = [item EXCEPT ![p] = r.item]
  /\ user' = [user EXCEPT ![p] = ZeroUser]
  /\ writes' = [writes EXCEPT ![p] = 0]
  /\ Started(p, "PurchaseItem", a)
  /\ UNCHANGED <<items, users, sales, debited>>

\* user, err := s.userRepo.FindById(userId); the balance check; item.SoldOut = true.
PurchaseFindUser(p) ==
  /\ pc[p] = "purchase_find_user"
  /\ LET r == UserFindById(users, arg[p].userId)
     IN IF r.err # ""
          THEN /\ pc' = [pc EXCEPT ![p] = "done"]
               /\ res' = [res EXCEPT ![p] = r.err]
               /\ UNCHANGED <<item, user>>
          ELSE IF InsufficientBalance(r.user, item[p])
          THEN /\ pc' = [pc EXCEPT ![p] = "done"]
               /\ res' = [res EXCEPT ![p] = ErrBalance]
               /\ user' = [user EXCEPT ![p] = r.user]
               /\ UNCHANGED item
          ELSE /\ pc' = [pc EXCEPT ![p] = "purchase_item_hook"]
               /\ user' = [user EXCEPT ![p] = r.user]
               /\ item' = [item EXCEPT ![p].soldOut = TRUE]
               /\ UNCHANGED res
  /\ Continued(p)
  /\ UNCHANGED <<items, users, writes, sales, debited>>

\* _, err = s.repository.Update(*item), the UPDATE statement; user.Balance -= item.Price.
PurchaseUpdateItem(p) ==
  /\ pc[p] = "purchase_update_item"
  /\ LET r == RepoUpdate(items, item[p])
     IN /\ items' = r.db
        /\ IF r.err # ""
             THEN /\ pc' = [pc EXCEPT ![p] = "done"]
                  /\ res' = [res EXCEPT ![p] = r.err]
                  /\ UNCHANGED <<user, writes>>
             ELSE /\ pc' = [pc EXCEPT ![p] = "purchase_update_user"]
                  /\ user' = [user EXCEPT ![p].balance = UintSub(@, item[p].price)]
                  /\ writes' = [writes EXCEPT ![p] = @ + 1]
                  /\ UNCHANGED res
  /\ Continued(p)
  /\ UNCHANGED <<users, item, sales, debited>>

\* _, err = s.userRepo.Update(*user); return nil.
PurchaseUpdateUser(p) ==
  /\ pc[p] = "purchase_update_user"
  /\ LET r == UserUpdate(users, user[p])
     IN /\ users' = r.us
        /\ res' = [res EXCEPT ![p] = r.err]
        /\ writes' = [writes EXCEPT ![p] = IF r.err = "" THEN @ + 1 ELSE @]
        /\ sales' = IF r.err = "" THEN [sales EXCEPT ![item[p].id] = @ + 1] ELSE sales
        /\ debited' = IF r.err = "" THEN [debited EXCEPT ![user[p].id] = @ + item[p].price]
                                    ELSE debited
  /\ pc' = [pc EXCEPT ![p] = "done"]
  /\ Continued(p)
  /\ UNCHANGED <<items, item, user>>

(* --------------------- repository and query calls ---------------------- *)
\* Bookkeeping of the first statement of a repository or query call.
Called(p, o, a) ==
  /\ CanStart(p)
  /\ op' = [op EXCEPT ![p] = o]
  /\ arg' = [arg EXCEPT ![p] = a]
  /\ calls' = calls + 1
  /\ alone' = [q \in Procs |-> q = p]
  /\ pre' = [q \in Procs |-> IF q = p THEN [items |-> items, users |-> users] ELSE EmptyPre]
  /\ late' = [late EXCEPT ![p] = FALSE]
  /\ user' = [user EXCEPT ![p] = ZeroUser]
  /\ UNCHANGED <<users, sales, debited, memItems, mu>>

\* Bookkeeping of a call that is one statement.
Single(p, o, a) ==
  /\ pc' = [pc EXCEPT ![p] = "done"]
  /\ Called(p, o, a)

\* ItemRepository.Delete(itemId)
Delete(p, a) ==
  /\ LET r == RepoDelete(items, a.itemId)
     IN /\ items' = r.db
        /\ res' = [res EXCEPT ![p] = r.err]
        /\ writes' = [writes EXCEPT ![p] = IF r.err = "" THEN 1 ELSE 0]
  /\ item' = [item EXCEPT ![p] = ZeroItem]
  /\ ret' = [ret EXCEPT ![p] = NoRet]
  /\ Single(p, "Delete", a)

\* ItemRepository.FindById(itemId)
FindByIdCall(p, a) ==
  /\ LET r == FindById(items, a.itemId)
     IN /\ item' = [item EXCEPT ![p] = r.item]
        /\ res' = [res EXCEPT ![p] = r.err]
  /\ writes' = [writes EXCEPT ![p] = 0]
  /\ ret' = [ret EXCEPT ![p] = NoRet]
  /\ Single(p, "FindById", a)
  /\ UNCHANGED items

\* ItemRepository.Update(updateItem) called with a caller-built item: the call
\* is entered; the hook's SELECT (ItemBeforeUpdate) and the UPDATE follow.
RepositoryUpdate(p, a) ==
  /\ item' = [item EXCEPT ![p] =
                [ZeroItem EXCEPT !.id = a.itemId, !.name = a.name[1],
                                 !.price = a.price[1], !.description = a.description[1]]]
  /\ pc' = [pc EXCEPT ![p] = "repo_update_hook"]
  /\ res' = [res EXCEPT ![p] = ""]
  /\ writes' = [writes EXCEPT ![p] = 0]
  /\ ret' = [ret EXCEPT ![p] = NoRet]
  /\ Called(p, "RepositoryUpdate", a)
  /\ UNCHANGED items

\* ItemRepository.Update(updateItem): the UPDATE statement.
RepositoryUpdateWrite(p) ==
  /\ pc[p] = "repo_update_write"
  /\ LET r == RepoUpdate(items, item[p])
     IN /\ items' = r.db
        /\ item' = [item EXCEPT ![p] = IF r.err = "" THEN @ ELSE ZeroItem]
        /\ res' = [res EXCEPT ![p] = r.err]
        /\ writes' = [writes EXCEPT ![p] = IF r.err = "" THEN 1 ELSE 0]
  /\ pc' = [pc EXCEPT ![p] = "done"]
  /\ Continued(p)
  /\ UNCHANGED <<users, user, sales, debited>>

\* ItemRepository.FindWithPagination(page, pageSize): the Count statement.
FindWithPagination(p, a) ==
  /\ ret' = [ret EXCEPT ![p] = [NoRet EXCEPT !.total = CountItems(items)]]
  /\ pc' = [pc EXCEPT ![p] = "page_find"]
  /\ res' = [res EXCEPT ![p] = ""]
  /\ item' = [item EXCEPT ![p] = ZeroItem]
  /\ writes' = [writes EXCEPT ![p] = 0]
  /\ Called(p, "FindWithPagination", a)
  /\ UNCHANGED items

\* ItemRepository.FindWithPagination: the Offset/Limit Find statement.
FindWithPaginationFind(p) ==
  /\ pc[p] = "page_find"
  /\ \E page \in Paginate(items, arg[p].page, arg[p].pageSize) :
       ret' = [ret EXCEPT ![p].items = page]
  /\ pc' = [pc EXCEPT ![p] = "done"]
  /\ alone' = [q \in Procs |-> q = p /\ alone[p]]
  /\ pre' = [q \in Procs |-> IF q = p THEN pre[p] ELSE EmptyPre]
  /\ UNCHANGED <<items, users, op, arg, item, user, res, calls, writes, late, sales,
                 debited, memItems, mu>>

\* ItemRepository.CreateWithTransaction(tx, newItem): the INSERT inside the
\* caller's transaction draws the id and returns the item; the row is not
\* visible to other requests until the transaction commits.
CreateWithTransaction(p, a) ==
  /\ Len(items) < MaxItems
  /\ LET r == RepoCreate(items, NewItem(a))
     IN /\ items' = r.db
        /\ item' = [item EXCEPT ![p] = r.item]
        /\ res' = [res EXCEPT ![p] = r.err]
  /\ pc' = [pc EXCEPT ![p] = "tx_open"]
  /\ writes' = [writes EXCEPT ![p] = 0]
  /\ ret' = [ret EXCEPT ![p] = NoRet]
  /\ Called(p, "CreateWithTransaction", a)

\* The caller commits the transaction: the inserted row is stored under its id.
TxCommit(p) ==
  /\ pc[p] = "tx_open"
  /\ items' = RepoCommit(items, item[p])
  /\ writes' = [writes EXCEPT ![p] = 1]
  /\ pc' = [pc EXCEPT ![p] = "done"]
  /\ Continued(p)
  /\ UNCHANGED <<users, item, user, res, sales, debited>>

\* The caller rolls the transaction back: the returned id is never stored.
TxRollback(p) ==
  /\ pc[p] = "tx_open"
  /\ pc' = [pc EXCEPT ![p] = "done"]
  /\ Continued(p)
  /\ UNCHANGED <<items, users, item, user, res, writes, sales, debited>>

\* ItemService.GetStatistics()
GetStatistics(p) ==
  /\ \E its \in FindAll(items) :
       LET r == Statistics(its)
       IN /\ ret' = [ret EXCEPT ![p] = [NoRet EXCEPT !.total = r.total, !.sold = r.sold,
                                                    !.average = r.average]]
          /\ res' = [res EXCEPT ![p] = r.err]
  /\ item' = [item EXCEPT ![p] = ZeroItem]
  /\ writes' = [writes EXCEPT ![p] = 0]
  /\ Single(p, "GetStatistics", ZeroArg)
  /\ UNCHANGED items

(* ----------------------- ItemMemoryRepository ------------------------- *)
\* sync.RWMutex: Lock waits for the writer and for all readers.
CanLock(m) == m.writer = 0 /\ m.readers = {}

\* Variant: RLock does not wait for the writer.
CanRLockAlways(m) == TRUE
\* sync.RWMutex: RLock waits for the writer only.
CanRLock(m) == m.writer = 0

\* newItem.ID = uint(len(r.items) + 1)
MemNextId(ms) == Len(ms) + 1

\* itemsCopy := make(...); copy(itemsCopy, r.items); return &itemsCopy
MemFindAllCopy(ms) == [NoRet EXCEPT !.items = ms, !.aliased = FALSE]

MemFrame == UNCHANGED <<items, users, user, writes, alone, pre, late, sales, debited>>
MemStarted(p, o, a) ==
  /\ CanStart(p)
  /\ op' = [op EXCEPT ![p] = o]
  /\ arg' = [arg EXCEPT ![p] = a]
  /\ calls' = calls + 1
  /\ res' = [res EXCEPT ![p] = ""]
  /\ ret' = [ret EXCEPT ![p] = NoRet]
  /\ MemFrame
MemContinued == UNCHANGED <<op, arg, calls>> /\ MemFrame

\* Create: r.mu.Lock()
MemCreateLock(p, a) ==
  /\ CanLock(mu)
  /\ mu' = [mu EXCEPT !.writer = p]
  /\ pc' = [pc EXCEPT ![p] = "mem_create_id"]
  /\ item' = [item EXCEPT ![p] = NewItem(a)]
  /\ MemStarted(p, "MemCreate", a)
  /\ UNCHANGED memItems

\* Create: newItem.ID = uint(len(r.items) + 1)
MemCreateAssignId(p) ==
  /\ pc[p] = "mem_create_id"
  /\ item' = [item EXCEPT ![p].id = MemNextId(memItems)]
  /\ pc' = [pc EXCEPT ![p] = "mem_create_grow"]
  /\ MemContinued
  /\ UNCHANGED <<memItems, mu, res, ret>>

\* Create: append, first half: the slice grows by one slot.
MemCreateGrow(p) ==
  /\ pc[p] = "mem_create_grow"
  /\ memItems' = Append(memItems, ZeroItem)
  /\ pc' = [pc EXCEPT ![p] = "mem_create_store"]
  /\ MemContinued
  /\ UNCHANGED <<item, mu, res, ret>>

\* Create: append, second half: the element is stored in the new slot.
MemCreateStore(p) ==
  /\ pc[p] = "mem_create_store"
  /\ memItems' = [memItems EXCEPT ![Len(memItems)] = item[p]]
  /\ pc' = [pc EXCEPT ![p] = "mem_create_unlock"]
  /\ MemContinued
  /\ UNCHANGED <<item, mu, res, ret>>

\* Create: the deferred r.mu.Unlock(); return &newItem, nil
MemCreateUnlock(p) ==
  /\ pc[p] = "mem_create_unlock"
  /\ mu' = [mu EXCEPT !.writer = 0]
  /\ pc' = [pc EXCEPT ![p] = "done"]
  /\ MemContinued
  /\ UNCHANGED <<memItems, item, res, ret>>

\* FindAll: r.mu.RLock()
MemFindAllRLock(p) ==
  /\ CanRLock(mu)
  /\ mu' = [mu EXCEPT !.readers = @ \cup {p}]
  /\ pc' = [pc EXCEPT ![p] = "mem_find_copy"]
  /\ item' = [item EXCEPT ![p] = ZeroItem]
  /\ MemStarted(p, "MemFindAll", ZeroArg)
  /\ UNCHANGED memItems

\* FindAll: make and copy
MemFindAllRead(p) ==
  /\ pc[p] = "mem_find_copy"
  /\ ret' = [ret EXCEPT ![p] = MemFindAllCopy(memItems)]
  /\ pc' = [pc EXCEPT ![p] = "mem_find_unlock"]
  /\ MemContinued
  /\ UNCHANGED <<memItems, item, mu, res>>

\* FindAll: the deferred r.mu.RUnlock(); return &itemsCopy, nil
MemFindAllRUnlock(p) ==
  /\ pc[p] = "mem_find_unlock"
  /\ mu' = [mu EXCEPT !.readers = @ \ {p}]
  /\ pc' = [pc EXCEPT ![p] = "done"]
  /\ MemContinued
  /\ UNCHANGED <<memItems, item, res, ret>>

\* The caller overwrites the first element of the slice FindAll returned; the
\* repository's slice changes with it when both share the backing array.
CallerMark == "Z"
MemCallerModifies(p) ==
  /\ pc[p] = "done" /\ op[p] = "MemFindAll"
  /\ ret[p].items # <<>> /\ ret[p].items[1].name # CallerMark
  /\ ret' = [ret EXCEPT ![p].items[1].name = CallerMark]
  /\ memItems' = IF ret[p].aliased /\ memItems # <<>>
                   THEN [memItems EXCEPT ![1].name = CallerMark] ELSE memItems
  /\ MemContinued
  /\ UNCHANGED <<pc, item, mu, res>>

(* ---------------------------- storage faults --------------------------- *)
\* s.userRepo.Update returns a storage error: nothing is written.
PurchaseUpdateUserFails(p) ==
  /\ pc[p] = "purchase_update_user"
  /\ pc' = [pc EXCEPT ![p] = "done"]
  /\ res' = [res EXCEPT ![p] = ErrInfra]
  /\ Continued(p)
  /\ UNCHANGED <<items, users, item, user, writes, sales, debited>>

\* s.repository.FindById returns an error other than ErrRecordNotFound: Update
\* and PurchaseItem return it at once.
FindByIdFails(p, o, a) ==
  /\ CanStart(p)
  /\ pc' = [pc EXCEPT ![p] = "done"]
  /\ res' = [res EXCEPT ![p] = ErrInfra]
  /\ item' = [item EXCEPT ![p] = ZeroItem]
  /\ user' = [user EXCEPT ![p] = ZeroUser]
  /\ writes' = [writes EXCEPT ![p] = 0]
  /\ Started(p, o, a)
  /\ UNCHANGED <<items, users, sales, debited>>

\* s.userRepo.FindById returns a storage error: PurchaseItem returns it.
PurchaseFindUserFails(p) ==
  /\ pc[p] = "purchase_find_user"
  /\ pc' = [pc EXCEPT ![p] = "done"]
  /\ res' = [res EXCEPT ![p] = ErrInfra]
  /\ Continued(p)
  /\ UNCHANGED <<items, users, item, user, writes, sales, debited>>

\* The hook's tx.First fails: its error is dropped, oldItem stays the zero
\* value and the hook returns nil.
ItemBeforeUpdateReadFails(p) ==
  /\ pc[p] \in HookPc
  /\ pc' = [pc EXCEPT ![p] = AfterHook(pc[p])]
  /\ Continued(p)
  /\ UNCHANGED <<items, users, item, user, res, writes, sales, debited>>

\* The UPDATE statement of repository.Update returns result.Error: nothing is
\* written.
ItemUpdateFails(p) ==
  /\ pc[p] \in {"purchase_update_item", "update_write", "repo_update_write"}
  /\ pc' = [pc EXCEPT ![p] = "done"]
  /\ res' = [res EXCEPT ![p] = ErrInfra]
  /\ item' = [item EXCEPT ![p] = IF op[p] = "RepositoryUpdate" THEN ZeroItem ELSE @]
  /\ Continued(p)
  /\ UNCHANGED <<items, users, user, writes, sales, debited>>

\* r.db.Create's COMMIT fails: the transaction is rolled back, Create returns
\* (nil, err) and the id the INSERT drew stays unused.
CreateCommitFails(p) ==
  /\ pc[p] = "create_commit"
  /\ pc' = [pc EXCEPT ![p] = "done"]
  /\ res' = [res EXCEPT ![p] = ErrInfra]
  /\ item' = [item EXCEPT ![p] = ZeroItem]
  /\ Continued(p)
  /\ UNCHANGED <<items, users, user, writes, sales, debited>>

\* A call of one statement whose statement returns result.Error: the call
\* returns the error and nothing is written.
StatementFails(p, o, a) ==
  /\ res' = [res EXCEPT ![p] = ErrInfra]
  /\ item' = [item EXCEPT ![p] = ZeroItem]
  /\ ret' = [ret EXCEPT ![p] = NoRet]
  /\ writes' = [writes EXCEPT ![p] = 0]
  /\ Single(p, o, a)
  /\ UNCHANGED items

\* ItemRepository.Delete returns result.Error.
DeleteFails(p, a) == StatementFails(p, "Delete", a)

\* ItemRepository.FindById returns an error other than ErrRecordNotFound.
FindByIdCallFails(p, a) == StatementFails(p, "FindById", a)

\* ItemRepository.FindAll returns result.Error: GetStatistics returns (nil, err).
GetStatisticsFails(p) == StatementFails(p, "GetStatistics", ZeroArg)

\* ItemRepository.CreateWithTransaction: tx.Create returns result.Error, before
\* or after the INSERT drew its id.
CreateWithTransactionFails(p, a) ==
  /\ \/ UNCHANGED items
     \/ /\ Len(items) < MaxItems
        /\ items' = RepoCreate(items, NewItem(a)).db
  /\ res' = [res EXCEPT ![p] = ErrInfra]
  /\ item' = [item EXCEPT ![p] = ZeroItem]
  /\ ret' = [ret EXCEPT ![p] = NoRet]
  /\ writes' = [writes EXCEPT ![p] = 0]
  /\ Single(p, "CreateWithTransaction", a)

\* ItemRepository.FindWithPagination: the Count statement fails; its error is
\* not looked at, total keeps its zero value and the Find statement follows.
FindWithPaginationCountFails(p, a) ==
  /\ ret' = [ret EXCEPT ![p] = NoRet]
  /\ pc' = [pc EXCEPT ![p] = "page_find"]
  /\ res' = [res EXCEPT ![p] = ""]
  /\ item' = [item EXCEPT ![p] = ZeroItem]
  /\ writes' = [writes EXCEPT ![p] = 0]
  /\ Called(p, "FindWithPagination", a)
  /\ UNCHANGED items

\* ItemRepository.FindWithPagination: the Find statement returns result.Error;
\* the call returns (nil, 0, err).
FindWithPaginationFindFails(p) ==
  /\ pc[p] = "page_find"
  /\ ret' = [ret EXCEPT ![p] = NoRet]
  /\ res' = [res EXCEPT ![p] = ErrInfra]
  /\ pc' = [pc EXCEPT ![p] = "done"]
  /\ alone' = [q \in Procs |-> q = p /\ alone[p]]
  /\ pre' = [q \in Procs |-> IF q = p THEN pre[p] ELSE EmptyPre]
  /\ UNCHANGED <<items, users, op, arg, item, user, calls, writes, late, sales,
                 debited, memItems, mu>>

(* --------------------------- specifications ---------------------------- *)
Arg(i, u, n, pr, d, so) ==
  [itemId |-> i, userId |-> u, name |-> n, price |-> pr, description |-> d, soldOut |-> so,
   page |-> 0, pageSize |-> 0]

\* Requests of the sequential specification: one client, all input shapes.
CreateArgs == {Arg(0, 0, Some(n), Some(v), Some(d), Nil) :
                 n \in NameInputs, v \in PriceInputs, d \in DescriptionInputs}
UpdateArgs == {Arg(i, 0, n, v, d, so) :
                 i \in 1..MaxItems, n \in Opt(NameInputs), v \in Opt(PriceInputs),
                 d \in Opt(DescriptionInputs), so \in Opt(BOOLEAN)}
PurchaseArgs == {Arg(i, u, Nil, Nil, Nil, Nil) :
                   i \in 1..MaxItems, u \in 1..(Len(SeedUsers) + 1)}
DeleteArgs == {Arg(i, 0, Nil, Nil, Nil, Nil) : i \in 1..MaxItems}

\* Requests of the concurrent specifications: the seeded rows, one field per update.
ConcCreateArgs == {Arg(0, 0, Some("B"), Some(10), Some("y"), Nil)}
ConcUpdateArgs == {Arg(1, 0, Some("B"), Nil, Nil, Nil),
                   Arg(1, 0, Nil, Nil, Some("y"), Nil),
                   Arg(1, 0, Nil, Some(20), Nil, Nil)}
ConcPurchaseArgs == {Arg(i, u, Nil, Nil, Nil, Nil) :
                       i \in 1..Len(SeedItems), u \in 1..Len(SeedUsers)}
ConcDeleteArgs == {Arg(1, 0, Nil, Nil, Nil, Nil)}

Next ==
  \/ \E p \in Procs, a \in ConcCreateArgs : Create(p, a)
  \/ \E p \in Procs : CreateCommit(p)
  \/ \E p \in Procs, a \in ConcUpdateArgs : UpdateFindById(p, a)
  \/ \E p \in Procs : ItemBeforeUpdate(p)
  \/ \E p \in Procs : UpdateRepoUpdate(p)
  \/ \E p \in Procs, a \in ConcPurchaseArgs : PurchaseFindItem(p, a)
  \/ \E p \in Procs : PurchaseFindUser(p)
  \/ \E p \in Procs : PurchaseUpdateItem(p)
  \/ \E p \in Procs : PurchaseUpdateUser(p)
  \/ \E p \in Procs, a \in ConcDeleteArgs : Delete(p, a)

NextFault ==
  \/ Next
  \/ \E p \in Procs, a \in ConcCreateArgs : CreateFails(p, a)
  \/ \E p \in Procs : CreateCommitFails(p)
  \/ \E p \in Procs, a \in ConcDeleteArgs : DeleteFails(p, a)
  \/ \E p \in Procs, a \in ConcUpdateArgs : FindByIdFails(p, "Update", a)
  \/ \E p \in Procs, a \in ConcPurchaseArgs : FindByIdFails(p, "PurchaseItem", a)
  \/ \E p \in Procs : PurchaseFindUserFails(p)
  \/ \E p \in Procs : ItemBeforeUpdateReadFails(p)
  \/ \E p \in Procs : ItemUpdateFails(p)
  \/ \E p \in Procs : PurchaseUpdateUserFails(p)

NextSeq ==
  \/ \E a \in CreateArgs : Create(1, a)
  \/ CreateCommit(1)
  \/ \E a \in UpdateArgs : UpdateFindById(1, a)
  \/ ItemBeforeUpdate(1)
  \/ UpdateRepoUpdate(1)
  \/ \E a \in PurchaseArgs : PurchaseFindItem(1, a)
  \/ PurchaseFindUser(1)
  \/ PurchaseUpdateItem(1)
  \/ PurchaseUpdateUser(1)
  \/ \E a \in DeleteArgs : Delete(1, a)

\* Requests of the price-mapping specification: Create over the wide price set.
WideCreateArgs == {Arg(0, 0, Some(n), Some(v), Some(d), Nil) :
                     n \in NameInputs, v \in WidePrices, d \in DescriptionInputs}

NextCreate ==
  \/ \E a \in WideCreateArgs : Create(1, a)
  \/ CreateCommit(1)
  \/ \E a \in WideCreateArgs : CreateFails(1, a)
  \/ CreateCommitFails(1)

\* The repository specification: request 1 makes the repository's calls,
\* statement by statement, over a table of 0..MaxRows rows, while the other
\* requests delete and rewrite row 1 in between.
TableRow(i) == [name |-> "A", price |-> 10 + i, description |-> "x", soldOut |-> i % 3 = 0,
                userId |-> 1, categoryId |-> 1, deleted |-> FALSE]
InitRepo ==
  /\ items \in {[i \in 1..n |-> TableRow(i)] : n \in 0..MaxRows}
  /\ memItems = <<>>
  /\ InitRest

IdArgs == {[ZeroArg EXCEPT !.itemId = i] : i \in 1..MaxItems}
RepoUpdateArgs == {Arg(i, 0, Some("C"), Some(11), Some("y"), Nil) : i \in 0..MaxItems}
PageArgs == {[ZeroArg EXCEPT !.page = pg, !.pageSize = sz] : pg \in 1..3, sz \in 1..2}

ConcRepoUpdateArgs == {Arg(1, 0, Some("C"), Some(11), Some("y"), Nil)}

NextRepo ==
  \/ \E a \in ConcCreateArgs : Create(1, a)
  \/ CreateCommit(1)
  \/ \E a \in ConcCreateArgs : CreateWithTransaction(1, a)
  \/ TxCommit(1)
  \/ TxRollback(1)
  \/ \E a \in IdArgs : Delete(1, a)
  \/ \E a \in IdArgs : FindByIdCall(1, a)
  \/ \E a \in RepoUpdateArgs : RepositoryUpdate(1, a)
  \/ \E a \in PageArgs : FindWithPagination(1, a)
  \/ FindWithPaginationFind(1)
  \/ GetStatistics(1)
  \/ \E p \in Procs \ {1}, a \in ConcDeleteArgs : Delete(p, a)
  \/ \E p \in Procs \ {1}, a \in ConcRepoUpdateArgs : RepositoryUpdate(p, a)
  \/ \E p \in Procs : ItemBeforeUpdate(p)
  \/ \E p \in Procs : RepositoryUpdateWrite(p)

\* The repository specification with storage errors at every statement.
NextRepoFault ==
  \/ NextRepo
  \/ \E a \in ConcCreateArgs : CreateFails(1, a)
  \/ CreateCommitFails(1)
  \/ \E a \in ConcCreateArgs : CreateWithTransactionFails(1, a)
  \/ \E a \in IdArgs : DeleteFails(1, a)
  \/ \E a \in IdArgs : FindByIdCallFails(1, a)
  \/ GetStatisticsFails(1)
  \/ \E a \in PageArgs : FindWithPaginationCountFails(1, a)
  \/ FindWithPaginationFindFails(1)
  \/ \E p \in Procs : ItemBeforeUpdateReadFails(p)
  \/ \E p \in Procs : ItemUpdateFails(p)

\* The in-memory repository specification: NewItemMemoryRepository(items) for
\* every list of at most MaxSeedId items with distinct ids in 1..MaxSeedId.
MaxSeedId == 2
MemItem(i) == [ZeroItem EXCEPT !.id = i, !.name = "A", !.price = 10 * i]
MemSeeds ==
  {<<>>} \cup {<<MemItem(i)>> : i \in 1..MaxSeedId}
         \cup {<<MemItem(ij[1]), MemItem(ij[2])>> :
                 ij \in {x \in (1..MaxSeedId) \X (1..MaxSeedId) : x[1] # x[2]}}
InitMem ==
  /\ items = <<>>
  /\ memItems \in MemSeeds
  /\ InitRest

NextMem ==
  \/ \E p \in Procs, a \in ConcCreateArgs : MemCreateLock(p, a)
  \/ \E p \in Procs : MemCreateAssignId(p)
  \/ \E p \in Procs : MemCreateGrow(p)
  \/ \E p \in Procs : MemCreateStore(p)
  \/ \E p \in Procs : MemCreateUnlock(p)
  \/ \E p \in Procs : MemFindAllRLock(p)
  \/ \E p \in Procs : MemFindAllRead(p)
  \/ \E p \in Procs : MemFindAllRUnlock(p)
  \/ \E p \in Procs : MemCallerModifies(p)

Spec == Init /\ [][Next]_vars
SpecMem == InitMem /\ [][NextMem]_vars
SpecRepo == InitRepo /\ [][NextRepo]_vars
SpecRepoFault == InitRepo /\ [][NextRepoFault]_vars
SpecCreate == Init /\ [][NextCreate]_vars
SpecFault == Init /\ [][NextFault]_vars
SpecSeq == Init /\ [][NextSeq]_vars

(* ------------------------------- claims -------------------------------- *)
Done(p, o) == pc[p] = "done" /\ op[p] = o

\* C1: concurrent PurchaseItem calls against the same not-yet-sold item never
\* both return success (exactly one wins, the others see AlreadySoldOut).
C1_OneSuccessPerItem ==
  \A p \in Procs, q \in Procs :
    ( /\ p # q
      /\ Done(p, "PurchaseItem") /\ Done(q, "PurchaseItem")
      /\ arg[p].itemId = arg[q].itemId
      /\ ~late[p] /\ ~late[q] )
    => ~(res[p] = "" /\ res[q] = "")

\* C2: a PurchaseItem call that returns an error leaves the tables as they were
\* when it began: the item is not sold out while the balance is undebited.
C2_AllOrNothing ==
  \A p \in Procs :
    (Done(p, "PurchaseItem") /\ alone[p] /\ res[p] # "")
    => (items = pre[p].items /\ users = pre[p].users)

\* C3: a PurchaseItem call that runs alone on an unsold item of price P with a
\* buyer of balance B >= P succeeds, sets soldOut, leaves the balance at B - P
\* and changes no other item or user.
C3_SoloPurchase ==
  \A p \in Procs :
    LET i == arg[p].itemId
        u == arg[p].userId
        I == pre[p].items
        U == pre[p].users
    IN ( /\ Done(p, "PurchaseItem") /\ alone[p]
         /\ i \in Live(I) /\ u \in DOMAIN U
         /\ ~I[i].soldOut /\ U[u].balance >= I[i].price )
       => /\ res[p] = ""
          /\ items = [I EXCEPT ![i].soldOut = TRUE]
          /\ users = [U EXCEPT ![u].balance = U[u].balance - I[i].price]

C3_Witness ==
  \E p \in Procs :
    /\ Done(p, "PurchaseItem") /\ alone[p] /\ res[p] = ""
    /\ pre[p].users[arg[p].userId].balance = pre[p].items[arg[p].itemId].price
    /\ users[arg[p].userId].balance = 0
    /\ items[arg[p].itemId].soldOut

\* C4: a PurchaseItem call that begins after a successful purchase of the same
\* item fails with AlreadySoldOut and writes nothing.
C4_LaterPurchaseRejected ==
  \A p \in Procs :
    (Done(p, "PurchaseItem") /\ late[p]) => (res[p] = ErrSoldOut /\ writes[p] = 0)

\* C5: PurchaseItem is rejected with InsufficientBalance exactly when the loaded
\* balance is strictly below the loaded price (equality is accepted), and a
\* rejected call writes nothing: soldOut stays false and the balance stays put.
C5_InsufficientBalance ==
  \A p \in Procs :
    LET i == arg[p].itemId
        u == arg[p].userId
        I == pre[p].items
        U == pre[p].users
    IN Done(p, "PurchaseItem") =>
         /\ res[p] = ErrBalance =>
              /\ writes[p] = 0
              /\ user[p].balance < item[p].price
              /\ ~item[p].soldOut
         /\ (alone[p] /\ i \in Live(I) /\ u \in DOMAIN U /\ ~I[i].soldOut) =>
              /\ res[p] = ErrBalance <=> U[u].balance < I[i].price
              /\ res[p] = ErrBalance =>
                   (items = I /\ users = U /\ ~items[i].soldOut)

C5_Witness ==
  \E p \in Procs :
    /\ Done(p, "PurchaseItem") /\ alone[p] /\ res[p] = ErrBalance
    /\ users[arg[p].userId].balance = 11
    /\ items[arg[p].itemId].price = 22
    /\ ~items[arg[p].itemId].soldOut

\* C6: no persisted balance ever results from a wrapped unsigned subtraction
\* (a wrapped value has a negative reading): every balance stays within
\* 0 .. the balance the user started with.
C6_BalanceNeverWraps ==
  \A u \in DOMAIN users :
    users[u].balance >= 0 /\ users[u].balance <= SeedUsers[u].balance

C6_Witness ==
  \E p \in Procs, q \in Procs :
    /\ p # q
    /\ Done(p, "PurchaseItem") /\ Done(q, "PurchaseItem")
    /\ res[p] = "" /\ res[q] = ""
    /\ arg[p].userId = arg[q].userId
    /\ ~late[p] /\ ~late[q] /\ ~alone[p] /\ ~alone[q]
    /\ writes[p] = 2 /\ writes[q] = 2

\* C7: soldOut is monotonic: no step takes a persisted soldOut from true to false.
C7_SoldOutMonotonic ==
  [][\A i \in DOMAIN items : items[i].soldOut => items'[i].soldOut]_vars

\* C8: two successful updates of the same item, one setting only the name and
\* the other only the description, leave both new values persisted.
C8_NoLostUpdate ==
  \A p \in Procs, q \in Procs :
    ( /\ p # q /\ calls = 2
      /\ Done(p, "Update") /\ Done(q, "Update")
      /\ res[p] = "" /\ res[q] = ""
      /\ arg[p].itemId = arg[q].itemId
      /\ arg[p].name # Nil /\ arg[p].price = Nil /\ arg[p].description = Nil
      /\ arg[q].name = Nil /\ arg[q].price = Nil /\ arg[q].description # Nil )
    => /\ items[arg[p].itemId].name = arg[p].name[1]
       /\ items[arg[q].itemId].description = arg[q].description[1]

\* C9: a successful Update that runs alone leaves every field whose input is nil
\* at its previous persisted value, and changes no other item and no user.
C9_PartialUpdateFrame ==
  \A p \in Procs :
    LET i == arg[p].itemId
        a == arg[p]
        I == pre[p].items
    IN (Done(p, "Update") /\ alone[p] /\ res[p] = "") =>
         /\ Len(items) = Len(I)
         /\ \A j \in DOMAIN I : j # i => items[j] = I[j]
         /\ a.name = Nil => items[i].name = I[i].name
         /\ a.price = Nil => items[i].price = I[i].price
         /\ a.description = Nil => items[i].description = I[i].description
         /\ a.soldOut = Nil => items[i].soldOut = I[i].soldOut
         /\ users = pre[p].users

C9_Witness ==
  \E p \in Procs :
    /\ Done(p, "Update") /\ alone[p] /\ res[p] = ""
    /\ arg[p].name = Nil /\ arg[p].description = Nil /\ arg[p].price # Nil
    /\ items[arg[p].itemId].name = "A"
    /\ items[arg[p].itemId].price # pre[p].items[arg[p].itemId].price

\* C10: Create and Update persist exactly the price the client sent.
C10_PricePassedThrough ==
  \A p \in Procs :
    /\ (Done(p, "Create") /\ alone[p] /\ res[p] = "")
         => items[item[p].id].price = arg[p].price[1]
    /\ (Done(p, "Update") /\ alone[p] /\ res[p] = "" /\ arg[p].price # Nil)
         => items[arg[p].itemId].price = arg[p].price[1]

\* C11: Create hands the repository an item with the input's name and
\* description, SoldOut false and the price times 1.10 truncated (1000 gives
\* 1100), and returns exactly the repository's item and error.
C11_CreateMapping ==
  \A p \in Procs :
    LET a == arg[p]
        I == pre[p].items
        id == item[p].id
    IN (Done(p, "Create") /\ alone[p]) =>
         /\ res[p] = "" =>
              /\ id \notin DOMAIN I /\ Live(items) = Live(I) \cup {id}
              /\ \A j \in DOMAIN I : items[j] = I[j]
              /\ items[id].name = a.name[1]
              /\ items[id].description = a.description[1]
              /\ items[id].price = (a.price[1] * 110) \div 100
              /\ ~items[id].soldOut
              /\ item[p] = Loaded(items, id)
         /\ res[p] # "" =>
              /\ Live(items) = Live(I) /\ \A j \in DOMAIN I : items[j] = I[j]
              /\ item[p] = ZeroItem /\ res[p] = ErrInfra

C11_Witness ==
  \E p \in Procs :
    /\ Done(p, "Create") /\ alone[p] /\ res[p] = ""
    /\ arg[p].price = Some(1000)
    /\ items[item[p].id].price = 1100
    /\ ~items[item[p].id].soldOut

\* C12: on a sold-out item an Update whose input price differs from
\* the current price fails with ImmutablePriceAfterSale and changes nothing, and
\* an Update without a price succeeds and applies its name and description.
C12_InputPriceRejected ==
  \A p \in Procs :
    LET a == arg[p]
        i == a.itemId
        I == pre[p].items
    IN (Done(p, "Update") /\ alone[p] /\ i \in Live(I) /\ I[i].soldOut) =>
         /\ (a.price # Nil /\ a.price[1] # I[i].price) =>
              (res[p] = ErrImmutablePrice /\ items = I)
         /\ a.price = Nil =>
              /\ res[p] = ""
              /\ a.name # Nil => items[i].name = a.name[1]
              /\ a.description # Nil => items[i].description = a.description[1]

\* C13: GetStatistics never fails: on an empty repository it returns 0 items,
\* 0 sold and average 0; otherwise the average is the price sum divided by the
\* item count and soldItems counts the sold-out items.
C13_StatisticsTotal ==
  \A p \in Procs :
    LET L == Live(items)
    IN (Done(p, "GetStatistics") /\ alone[p]) =>
         /\ res[p] = ""
         /\ ret[p].total = Cardinality(L)
         /\ ret[p].sold = Cardinality({i \in L : items[i].soldOut})
         /\ ret[p].average = IF L = {} THEN 0
                             ELSE TotalPrice(CHOOSE its \in FindAll(items) : TRUE)
                                    \div Cardinality(L)

\* C14: a FindWithPagination(page, pageSize) call that runs alone and does not
\* return a storage error returns totalCount = T and exactly
\* min(pageSize, max(0, T - (page - 1) * pageSize)) items.
C14_PageLength ==
  \A p \in Procs :
    LET T == Cardinality(Live(items))
        rest == T - (arg[p].page - 1) * arg[p].pageSize
        want == IF rest <= 0 THEN 0
                ELSE IF rest < arg[p].pageSize THEN rest ELSE arg[p].pageSize
    IN (Done(p, "FindWithPagination") /\ alone[p]) =>
         \/ res[p] = ErrInfra /\ ret[p] = NoRet
         \/ /\ res[p] = ""
            /\ ret[p].total = T
            /\ Len(ret[p].items) = want

\* C15: Delete of an id that is not stored fails with NotFound and changes
\* nothing; after a successful Delete every FindById, Update and Delete of that
\* id fails with NotFound, and no other item is affected.  A call the storage
\* fails under returns the storage's error and changes nothing.
C15_DeleteNotFound ==
  \A p \in Procs :
    LET i == arg[p].itemId
        I == pre[p].items
        gone == i \notin DOMAIN I \/ I[i].deleted
    IN /\ ( /\ alone[p] /\ pc[p] = "done" /\ gone
            /\ \/ op[p] \in {"Delete", "FindById"}
               \/ op[p] = "RepositoryUpdate" /\ i \in DOMAIN I )
          => (res[p] \in {ErrNotFound, ErrInfra} /\ items = I)
       /\ (Done(p, "Delete") /\ alone[p] /\ ~gone /\ res[p] = ErrInfra) => items = I
       /\ (Done(p, "Delete") /\ alone[p] /\ ~gone /\ res[p] # ErrInfra) =>
            /\ res[p] = ""
            /\ Len(items) = Len(I)
            /\ \A j \in DOMAIN I : j # i => items[j] = I[j]
            /\ FindById(items, i).err = ErrNotFound
            /\ RepoUpdate(items, [ZeroItem EXCEPT !.id = i]).err = ErrNotFound

C15_Witness ==
  \E p \in Procs :
    /\ Done(p, "Delete") /\ alone[p] /\ res[p] = ErrNotFound
    /\ arg[p].itemId \in DOMAIN items
    /\ items[arg[p].itemId].deleted
    /\ \E j \in DOMAIN items : ~items[j].deleted

\* C18: Create returns an item with a non-zero id and the input's name, a
\* FindById of that id right afterwards finds an item of that name, and a
\* FindById repeated with no write in between returns the same result (unless
\* the storage fails under one of the reads).
C18_CreateReadRoundTrip ==
  [][\A p \in Procs :
       /\ (pc[p] = "create_commit" /\ pc'[p] = "done" /\ res'[p] = "")
            => (item'[p].id # 0 /\ item'[p].name = arg'[p].name[1])
       /\ ( /\ Done(p, "Create") /\ res[p] = "" /\ alone[p]
            /\ op'[p] = "FindById" /\ calls' = calls + 1
            /\ arg'[p].itemId = item[p].id )
            => \/ res'[p] = ErrInfra
               \/ res'[p] = "" /\ item'[p].name = arg[p].name[1] /\ item'[p] = item[p]
       /\ ( /\ Done(p, "FindById") /\ alone[p]
            /\ op'[p] = "FindById" /\ calls' = calls + 1
            /\ arg'[p].itemId = arg[p].itemId )
            => \/ res'[p] = ErrInfra \/ res[p] = ErrInfra
               \/ res'[p] = res[p] /\ item'[p] = item[p]
  ]_vars

C18_Witness ==
  \E p \in Procs :
    /\ Done(p, "FindById") /\ alone[p] /\ res[p] = ""
    /\ calls = 3
    /\ item[p].id = Len(items) /\ item[p].name = "B"

\* C17: every item Create persists refers to an existing owner and an existing
\* category; Create never hands the repository an unset reference.
C17_ReferencesExist ==
  \A p \in Procs :
    (Done(p, "Create") /\ res[p] = "") =>
      /\ item[p].userId \in DOMAIN users
      /\ item[p].categoryId \in SeedCategories
      /\ items[item[p].id].userId \in DOMAIN users
      /\ items[item[p].id].categoryId \in SeedCategories

\* C19: once every PurchaseItem call has returned, each user's balance is the
\* initial balance minus the prices of the purchases that returned success for
\* that user.
C19_DebitConservation ==
  (\A p \in Procs : pc[p] \in {"idle", "done"}) =>
    \A u \in DOMAIN users : users[u].balance = SeedUsers[u].balance - debited[u]

\* C16: after any interleaving of Create calls on the in-memory repository no
\* two stored items share an id (so the id Create returns was not held before).
C16_UniqueIds ==
  mu.writer = 0 =>
    \A j \in DOMAIN memItems, k \in DOMAIN memItems :
      j # k => memItems[j].id # memItems[k].id

\* C20: at most one Create is inside its critical section and then no FindAll
\* is inside its own; FindAll never returns a partially appended collection,
\* and changing the returned slice does not change the repository's items.
InCreate(p) == pc[p] \in {"mem_create_id", "mem_create_grow", "mem_create_store",
                          "mem_create_unlock"}
InFindAll(p) == pc[p] \in {"mem_find_copy", "mem_find_unlock"}
C20_Exclusion ==
  /\ Cardinality({p \in Procs : InCreate(p)}) <= 1
  /\ (\E p \in Procs : InCreate(p)) => ~(\E q \in Procs : InFindAll(q))
  /\ \A p \in Procs : \A k \in DOMAIN ret[p].items : ret[p].items[k].id # 0
  /\ \A k \in DOMAIN memItems : memItems[k].name # CallerMark

C20_Witness ==
  /\ Cardinality({p \in Procs : InFindAll(p)}) >= 2
  /\ Cardinality(mu.readers) >= 2
  /\ \E k \in DOMAIN memItems : memItems[k].name = "B"

\* C21: a PurchaseItem call that runs alone checks, in this order, that the
\* item exists, that it is not sold out, that the buyer exists and that the
\* balance suffices; it returns the error of the first failing check (a
\* sold-out item with a missing buyer gives AlreadySoldOut) and writes nothing.
C21_CheckOrder ==
  \A p \in Procs :
    LET i == arg[p].itemId
        u == arg[p].userId
        I == pre[p].items
        U == pre[p].users
        expected ==
          IF i \notin Live(I) THEN ErrNotFound
          ELSE IF I[i].soldOut THEN ErrSoldOut
          ELSE IF u \notin DOMAIN U THEN ErrNotFound
          ELSE IF U[u].balance < I[i].price THEN ErrBalance
          ELSE ""
    IN (Done(p, "PurchaseItem") /\ alone[p]) =>
         /\ res[p] = expected
         /\ expected # "" => (items = I /\ users = U /\ writes[p] = 0)

C21_Witness ==
  \E p \in Procs :
    /\ Done(p, "PurchaseItem") /\ alone[p]
    /\ arg[p].itemId \in Live(pre[p].items)
    /\ pre[p].items[arg[p].itemId].soldOut
    /\ arg[p].userId \notin DOMAIN pre[p].users
    /\ res[p] = ErrSoldOut
    /\ items = pre[p].items /\ users = pre[p].users

\* C22: an Update call that runs alone leaves the persisted soldOut of every
\* item as it was, whatever the input's SoldOut field holds; a row that is sold
\* out was written by a PurchaseItem call.
C22_UpdateKeepsSoldOut ==
  /\ \A p \in Procs :
       (Done(p, "Update") /\ alone[p]) =>
         /\ Len(items) = Len(pre[p].items)
         /\ \A j \in DOMAIN items : items[j].soldOut = pre[p].items[j].soldOut
  /\ \A j \in DOMAIN items :
       items[j].soldOut =>
         \/ sales[j] > 0
         \/ \E p \in Procs : /\ op[p] = "PurchaseItem" /\ item[p].id = j
                              /\ pc[p] = "purchase_update_user"

C22_Witness ==
  \E p \in Procs :
    /\ Done(p, "Update") /\ alone[p] /\ res[p] = ""
    /\ arg[p].soldOut = Some(TRUE) /\ arg[p].name # Nil
    /\ items[arg[p].itemId].name = arg[p].name[1]
    /\ items[arg[p].itemId].name # pre[p].items[arg[p].itemId].name
    /\ ~items[arg[p].itemId].soldOut
====
